---- MODULE Spec2Model ----
(***************************************************************************)
(* DuckConvert: the path-naming core (path_manager.py), the dispatch table *)
(* (conversions.py) and the batch loop (DuckConvert.py).                   *)
(*                                                                         *)
(* File and directory names are strings; str and pathlib operations are    *)
(* operators on strings, computed character by character.                  *)
(***************************************************************************)
EXTENDS Naturals, Sequences, FiniteSets, TLC

VARIABLES
  \* one call of BasePathManager._replace_alias_in_string
  aText, aOld, aNew, aCalled, aResult,
  \* one call of create_path_manager: the input path, what is on disk there
  \* (a file, a directory with its children in iterdir() order, or nothing),
  \* the destination token, and the path manager built
  pInput, pKind, pListing, pOut, pm,
  \* convert(): args.input_type, files_to_process, output_dest, the paths that
  \* exist on disk, the position in convert, the loop index, the engine
  \* connection and how often this batch acquired it, the log, one record
  \* per process_file call, and the number of the batch
  input_type, files_to_process, output_dest, fs, pc, idx, conn, acquired,
  log, calls, batch

aliasVars == <<aText, aOld, aNew, aCalled, aResult>>
pathVars == <<pInput, pKind, pListing, pOut, pm>>
convertVars == <<input_type, files_to_process, output_dest, fs, pc, idx, conn,
                 acquired, log, calls, batch>>
vars == <<aliasVars, pathVars, convertVars>>

None == "None"

(***************************************************************************)
(* Bounds of the model.                                                    *)
(***************************************************************************)
MaxSegs == 3
MaxDirSegs == 2
MaxChildren == 4
MaxFiles == 4
MaxPre == 1
MaxBatches == 2

(***************************************************************************)
(* str: characters, case.                                                  *)
(***************************************************************************)
LowerChars == "abcdefghijklmnopqrstuvwxyz"
UpperChars == "ABCDEFGHIJKLMNOPQRSTUVWXYZ"
DigitChars == "0123456789"

Ch(s, i) == SubSeq(s, i, i)

CharsOf(s) == { Ch(s, i) : i \in 1..Len(s) }

IndexIn(alphabet, c) ==
  IF \E i \in 1..Len(alphabet) : Ch(alphabet, i) = c
  THEN CHOOSE i \in 1..Len(alphabet) : Ch(alphabet, i) = c
  ELSE 0

UpperSet == CharsOf(UpperChars)
LowerSet == CharsOf(LowerChars)
UpperOf == [c \in LowerSet |-> Ch(UpperChars, IndexIn(LowerChars, c))]
LowerOf == [c \in UpperSet |-> Ch(LowerChars, IndexIn(UpperChars, c))]

\* str.upper() / str.lower() on one character
UpperCh(c) == IF c \in LowerSet THEN UpperOf[c] ELSE c
LowerCh(c) == IF c \in UpperSet THEN LowerOf[c] ELSE c

RECURSIVE StrUpper(_)
StrUpper(s) == IF Len(s) = 0 THEN "" ELSE UpperCh(Ch(s, 1)) \o StrUpper(SubSeq(s, 2, Len(s)))

RECURSIVE StrLower(_)
StrLower(s) == IF Len(s) = 0 THEN "" ELSE LowerCh(Ch(s, 1)) \o StrLower(SubSeq(s, 2, Len(s)))

\* str.isupper(): at least one cased character and no lower-case character
StrIsUpper(s) ==
  /\ \E i \in 1..Len(s) : Ch(s, i) \in UpperSet
  /\ \A i \in 1..Len(s) : Ch(s, i) \notin LowerSet

\* str.islower(): at least one cased character and no upper-case character
StrIsLower(s) ==
  /\ \E i \in 1..Len(s) : Ch(s, i) \in LowerSet
  /\ \A i \in 1..Len(s) : Ch(s, i) \notin UpperSet

\* str.capitalize(): first character upper-cased, the rest lower-cased
StrCapitalize(s) ==
  IF Len(s) = 0 THEN "" ELSE UpperCh(Ch(s, 1)) \o StrLower(SubSeq(s, 2, Len(s)))

(***************************************************************************)
(* BasePathManager._replace_alias_in_string                                *)
(***************************************************************************)
\* re.compile(re.escape(old_alias), re.IGNORECASE) matching at position i
MatchesAt(text, old_alias, i) ==
  /\ i + Len(old_alias) - 1 <= Len(text)
  /\ StrLower(SubSeq(text, i, i + Len(old_alias) - 1)) = StrLower(old_alias)

\* replacer without its capitalized branch: Csv is treated as mixed case
replacer_NoCapitalized(orig, new_alias) ==
  IF StrIsUpper(orig) THEN StrUpper(new_alias)
  ELSE IF StrIsLower(orig) THEN StrLower(new_alias)
  ELSE new_alias

\* the replacer callback: the new alias in the case pattern of the match
replacer(orig, new_alias) ==
  IF StrIsUpper(orig) THEN StrUpper(new_alias)
  ELSE IF StrIsLower(orig) THEN StrLower(new_alias)
  ELSE IF StrIsUpper(Ch(orig, 1)) /\ StrIsLower(SubSeq(orig, 2, Len(orig)))
       THEN StrCapitalize(new_alias)
  ELSE new_alias

\* pattern.subn(replacer, text): <<result, count>>, scanning left to right,
\* matches not overlapping
RECURSIVE subn(_, _, _, _)
subn(text, old_alias, new_alias, i) ==
  IF i > Len(text) THEN <<"", 0>>
  ELSE IF MatchesAt(text, old_alias, i)
       THEN LET rest == subn(text, old_alias, new_alias, i + Len(old_alias))
            IN  <<replacer(SubSeq(text, i, i + Len(old_alias) - 1), new_alias) \o rest[1],
                  rest[2] + 1>>
       ELSE LET rest == subn(text, old_alias, new_alias, i + 1)
            IN  <<Ch(text, i) \o rest[1], rest[2]>>

_replace_alias_in_string(text, old_alias, new_alias) ==
  LET r == subn(text, old_alias, new_alias, 1)
  IN  IF r[2] = 0 THEN text \o " " \o new_alias ELSE r[1]

(***************************************************************************)
(* pathlib: a path is [dir, name]; suffix, stem, with_suffix act on name.  *)
(***************************************************************************)
\* name.rfind("."): the last position of a dot, 0 when there is none
RECURSIVE rfind_dot(_, _)
rfind_dot(name, i) ==
  IF i = 0 THEN 0 ELSE IF Ch(name, i) = "." THEN i ELSE rfind_dot(name, i - 1)

\* PurePath.suffix: from the last dot, unless the dot is first or last
Suffix(name) ==
  LET i == rfind_dot(name, Len(name))
  IN  IF 1 < i /\ i < Len(name) THEN SubSeq(name, i, Len(name)) ELSE ""

\* PurePath.stem
Stem(name) ==
  LET i == rfind_dot(name, Len(name))
  IN  IF 1 < i /\ i < Len(name) THEN SubSeq(name, 1, i - 1) ELSE name

\* PurePath.with_suffix
with_suffix(path, suffix) ==
  LET old_suffix == Suffix(path.name)
  IN  [dir |-> path.dir,
       name |-> IF old_suffix = "" THEN path.name \o suffix
                ELSE SubSeq(path.name, 1, Len(path.name) - Len(old_suffix)) \o suffix]

(***************************************************************************)
(* path_manager.py                                                         *)
(***************************************************************************)
ALLOWED_EXT_MAP ==
  (".csv" :> "csv") @@ (".txt" :> "csv") @@ (".json" :> "json") @@
  (".parquet" :> "parquet") @@ (".parq" :> "parquet") @@ (".pq" :> "parquet") @@
  (".xlsx" :> "excel")

\* the naming map with .txt named like the processing map names it
NAMING_EXT_MAP_TxtAsCsv == ALLOWED_EXT_MAP

NAMING_EXT_MAP ==
  (".csv" :> "csv") @@ (".txt" :> "txt") @@ (".json" :> "json") @@
  (".parquet" :> "parquet") @@ (".parq" :> "parquet") @@ (".pq" :> "parquet") @@
  (".xlsx" :> "excel")

\* FilePathManager._generate_output_path
FilePathManager_generate_output_path(input_path, output_ext) ==
  with_suffix(input_path, "." \o output_ext)

FilePathManager(input_path, output_ext) ==
  [cls |-> "FilePathManager",
   input_name |-> input_path.name,
   input_dir |-> input_path.dir,
   file_ext |-> IF Suffix(input_path.name) = "" THEN ""
                ELSE SubSeq(Suffix(input_path.name), 2, Len(Suffix(input_path.name))),
   output_path |-> FilePathManager_generate_output_path(input_path, output_ext)]

\* the aliases list of _infer_majority_alias: one entry per child that is a
\* file with a suffix of the naming map, in iterdir() order
RECURSIVE aliases_of(_)
aliases_of(listing) ==
  IF listing = <<>> THEN <<>>
  ELSE LET file_path == Head(listing)
           suffix == StrLower(Suffix(file_path.name))
       IN  IF file_path.is_file /\ suffix \in DOMAIN NAMING_EXT_MAP
           THEN <<NAMING_EXT_MAP[suffix]>> \o aliases_of(Tail(listing))
           ELSE aliases_of(Tail(listing))

\* Counter(aliases): <<alias, count>> pairs in the order of first insertion
RECURSIVE Counter(_)
Counter(aliases) ==
  IF aliases = <<>> THEN <<>>
  ELSE LET c == Counter(SubSeq(aliases, 1, Len(aliases) - 1))
           a == aliases[Len(aliases)]
       IN  IF \E i \in 1..Len(c) : c[i][1] = a
           THEN [i \in 1..Len(c) |-> IF c[i][1] = a THEN <<a, c[i][2] + 1>> ELSE c[i]]
           ELSE Append(c, <<a, 1>>)

\* most_common(1) that keeps the last of the aliases tied for the maximum
RECURSIVE most_common_1_LastWins(_)
most_common_1_LastWins(items) ==
  IF Len(items) = 1 THEN items[1]
  ELSE LET best == most_common_1_LastWins(SubSeq(items, 1, Len(items) - 1))
       IN  IF items[Len(items)][2] >= best[2] THEN items[Len(items)] ELSE best

\* Counter.most_common(1)[0]: max() by count keeps the first maximal item
RECURSIVE most_common_1(_)
most_common_1(items) ==
  IF Len(items) = 1 THEN items[1]
  ELSE LET best == most_common_1(SubSeq(items, 1, Len(items) - 1))
       IN  IF items[Len(items)][2] > best[2] THEN items[Len(items)] ELSE best

\* DirectoryPathManager._infer_majority_alias
_infer_majority_alias(is_dir, listing) ==
  IF ~is_dir THEN None
  ELSE LET aliases == aliases_of(listing)
       IN  IF aliases = <<>> THEN None
           ELSE most_common_1(Counter(aliases))[1]

\* _generate_output_name that appends the destination alias even when an
\* alias was inferred
_generate_output_name_AlwaysAppend(input_name, input_alias, output_ext) ==
  input_name \o " " \o output_ext

\* DirectoryPathManager._generate_output_name
_generate_output_name(input_name, input_alias, output_ext) ==
  IF input_alias # None
  THEN _replace_alias_in_string(input_name, input_alias, output_ext)
  ELSE input_name \o " " \o output_ext

DirectoryPathManager(input_path, output_ext, is_dir, listing) ==
  LET input_alias == _infer_majority_alias(is_dir, listing)
      output_name == _generate_output_name(input_path.name, input_alias, output_ext)
  IN  [cls |-> "DirectoryPathManager",
       input_name |-> input_path.name,
       input_dir |-> input_path.dir,
       input_alias |-> input_alias,
       output_name |-> output_name,
       output_path |-> [dir |-> input_path.dir, name |-> output_name]]

\* create_path_manager: kind is what the input path is on disk
create_path_manager(input_path, output_ext, kind, listing) ==
  IF kind = "file"
  THEN FilePathManager(input_path, output_ext)
  ELSE DirectoryPathManager(input_path, output_ext, kind = "dir", listing)

(***************************************************************************)
(* SpecAlias: _replace_alias_in_string applied to bounded inputs.          *)
(***************************************************************************)
\* pieces a name is put together from: the aliases csv and txt in every case
\* pattern, fragments of them, separators
Segments == {"csv", "CSV", "Csv", "cSv", "txt", "tx", "_", "Data"}

RECURSIVE Concats(_)
Concats(n) ==
  IF n = 0 THEN {""}
  ELSE LET shorter == Concats(n - 1)
       IN  shorter \cup { s \o g : s \in shorter, g \in Segments }

SpecExamples == {"SALES_CSV_2023", "Sales_Csv_Report", "sales_csv_report", "MyData"}

AliasTexts == (Concats(MaxSegs) \ {""}) \cup SpecExamples
OldAliases == {"csv", "txt"}
NewAliases == {"json", "tsv", "pQ"}

AliasIdle ==
  /\ aText = ""
  /\ aOld = ""
  /\ aNew = ""
  /\ aCalled = FALSE
  /\ aResult = ""

\* no path manager built yet
NoPM == [cls |-> None]
NoPath == [dir |-> None, name |-> ""]

PathIdle ==
  /\ pInput = NoPath
  /\ pKind = None
  /\ pListing = <<>>
  /\ pOut = None
  /\ pm = NoPM

ConvertIdle ==
  /\ input_type = None
  /\ files_to_process = <<>>
  /\ output_dest = NoPath
  /\ fs = {}
  /\ pc = None
  /\ idx = 0
  /\ conn = None
  /\ acquired = 0
  /\ log = <<>>
  /\ calls = <<>>
  /\ batch = 0

AliasInit ==
  /\ PathIdle
  /\ ConvertIdle
  /\ aText \in AliasTexts
  /\ aOld \in OldAliases
  /\ aNew \in NewAliases
  /\ aCalled = FALSE
  /\ aResult = ""

ReplaceAliasCall ==
  /\ ~aCalled
  /\ aCalled' = TRUE
  /\ aResult' = _replace_alias_in_string(aText, aOld, aNew)
  /\ UNCHANGED <<aText, aOld, aNew>>
  /\ UNCHANGED <<pathVars, convertVars>>

AliasNext == ReplaceAliasCall

SpecAlias == AliasInit /\ [][AliasNext]_vars

(***************************************************************************)
(* SpecPath: create_path_manager applied to bounded inputs.                *)
(***************************************************************************)
Root == "root"

\* the destination tokens: the keys of EXTENSIONS
EXTENSIONS ==
  ("csv" :> ".csv") @@ ("tsv" :> ".tsv") @@ ("txt" :> ".txt") @@
  ("parquet" :> ".parquet") @@ ("json" :> ".json") @@ ("excel" :> ".xlsx")

Tokens == DOMAIN EXTENSIONS

\* children of an input directory: files of every naming alias, a file with
\* an upper-case suffix, a file outside the naming map, a subdirectory
Children ==
  { [name |-> "a.csv", is_file |-> TRUE], [name |-> "b.CSV", is_file |-> TRUE],
    [name |-> "c.json", is_file |-> TRUE], [name |-> "d.json", is_file |-> TRUE],
    [name |-> "e.txt", is_file |-> TRUE], [name |-> "f.pq", is_file |-> TRUE],
    [name |-> "g.tsv", is_file |-> TRUE], [name |-> "h.json", is_file |-> FALSE] }

\* iterdir() results: sequences of distinct children, at most n long
RECURSIVE Listings(_)
Listings(n) ==
  IF n = 0 THEN {<<>>}
  ELSE LET shorter == Listings(n - 1)
       IN  shorter \cup
           UNION { { Append(l, c) : c \in { d \in Children : \A i \in 1..Len(l) : l[i] # d } } :
                   l \in shorter }

DirNames == (Concats(MaxDirSegs) \ {""}) \cup SpecExamples
FileNames == {"data.csv", "report.final.json", "Data.XLSX", "notes", ".hidden", "a.txt", "b.pq"}

PathInit ==
  /\ AliasIdle
  /\ ConvertIdle
  /\ pm = NoPM
  /\ \/ /\ pKind = "dir"
        /\ pInput \in { [dir |-> Root, name |-> n] : n \in {"csv_data", "MyData"} }
        /\ pOut \in {"json", "csv"}
        /\ pListing \in Listings(MaxChildren)
     \/ /\ pKind = "dir"
        /\ pInput \in { [dir |-> Root, name |-> n] : n \in DirNames }
        /\ pOut \in Tokens
        /\ pListing \in Listings(1)
     \/ /\ pKind = "file"
        /\ pInput \in { [dir |-> Root, name |-> n] : n \in FileNames }
        /\ pOut \in Tokens
        /\ pListing = <<>>
     \/ /\ pKind = "missing"
        /\ pInput \in { [dir |-> Root, name |-> n] : n \in {"csv_data", "nowhere.csv"} }
        /\ pOut \in Tokens
        /\ pListing = <<>>

CreatePathManager ==
  /\ pm.cls = None
  /\ pm' = create_path_manager(pInput, pOut, pKind, pListing)
  /\ UNCHANGED <<pInput, pKind, pListing, pOut>>
  /\ UNCHANGED <<aliasVars, convertVars>>

PathNext == CreatePathManager

SpecPath == PathInit /\ [][PathNext]_vars

(***************************************************************************)
(* conversions.py: the dispatch table                                      *)
(***************************************************************************)
\* the table with the csv-to-csv pair registered as well
CONVERSION_FUNCTIONS_WithCsvToCsv ==
  { <<"csv", "parquet">>, <<"csv", "json">>, <<"csv", "excel">>, <<"csv", "tsv">>,
    <<"csv", "txt">>, <<"csv", "csv">>,
    <<"json", "csv">>, <<"json", "parquet">>, <<"json", "excel">>, <<"json", "tsv">>,
    <<"json", "txt">>,
    <<"parquet", "csv">>, <<"parquet", "json">>, <<"parquet", "excel">>,
    <<"parquet", "tsv">>, <<"parquet", "txt">>,
    <<"excel", "csv">>, <<"excel", "parquet">>, <<"excel", "json">>, <<"excel", "tsv">>,
    <<"excel", "txt">> }

\* the keys of CONVERSION_FUNCTIONS
CONVERSION_FUNCTIONS ==
  { <<"csv", "parquet">>, <<"csv", "json">>, <<"csv", "excel">>, <<"csv", "tsv">>,
    <<"csv", "txt">>,
    <<"json", "csv">>, <<"json", "parquet">>, <<"json", "excel">>, <<"json", "tsv">>,
    <<"json", "txt">>,
    <<"parquet", "csv">>, <<"parquet", "json">>, <<"parquet", "excel">>,
    <<"parquet", "tsv">>, <<"parquet", "txt">>,
    <<"excel", "csv">>, <<"excel", "parquet">>, <<"excel", "json">>, <<"excel", "tsv">>,
    <<"excel", "txt">> }

\* get_conversion_instance: the strategy registered for the pair, or the
\* unsupported-pair error
get_conversion_instance(input_format, output_format) ==
  IF <<input_format, output_format>> \in CONVERSION_FUNCTIONS
  THEN "strategy"
  ELSE "UnsupportedConversionPair"

(***************************************************************************)
(* DuckConvert.py: process_file                                            *)
(***************************************************************************)
\* str(counter)
RECURSIVE IntToStr(_)
IntToStr(n) ==
  IF n < 10 THEN Ch(DigitChars, n + 1)
  ELSE IntToStr(n \div 10) \o Ch(DigitChars, (n % 10) + 1)

\* the output file path before the overwrite check
output_file_for(file, out_type, output_dir) ==
  IF output_dir # NoPath
  THEN [dir |-> output_dir, name |-> Stem(file.name) \o EXTENSIONS[out_type]]
  ELSE with_suffix(file, EXTENSIONS[out_type])

\* output_file.parent / f"{base}_{counter}{ext}"
numbered(output_file, counter) ==
  [dir |-> output_file.dir,
   name |-> Stem(output_file.name) \o "_" \o IntToStr(counter) \o Suffix(output_file.name)]

\* the while loop: the first counter from `counter` on whose candidate is free
RECURSIVE first_free_counter(_, _, _)
first_free_counter(output_file, counter, existing) ==
  IF numbered(output_file, counter) \in existing
  THEN first_free_counter(output_file, counter + 1, existing)
  ELSE counter

\* the overwrite check that tries _1 and takes _2 without looking
avoid_overwrite_OneProbe(output_file, existing) ==
  IF output_file \in existing
  THEN IF numbered(output_file, 1) \in existing
       THEN numbered(output_file, 2)
       ELSE numbered(output_file, 1)
  ELSE output_file

\* no overwrite check at all
avoid_overwrite_NoCheck(output_file, existing) == output_file

\* "Avoid overwriting an existing file"
avoid_overwrite(output_file, existing) ==
  IF output_file \in existing
  THEN numbered(output_file, first_free_counter(output_file, 1, existing))
  ELSE output_file

\* process_file: the record of one call. engine_ok is whether conversion.run()
\* returns; an exception of the lookup or of the run is caught and logged.
process_file(file, in_type, out_type, output_dir, existing, engine_ok) ==
  LET first == output_file_for(file, out_type, output_dir)
      output_file == avoid_overwrite(first, existing)
      conversion == get_conversion_instance(in_type, out_type)
  IN  [file |-> file,
       in_type |-> in_type,
       out_type |-> out_type,
       output_dir |-> output_dir,
       first |-> first,
       output_file |-> output_file,
       existing |-> existing,
       result |-> IF conversion = "UnsupportedConversionPair" THEN conversion
                  ELSE IF engine_ok THEN "converted"
                  ELSE "EngineError"]

(***************************************************************************)
(* DuckConvert.py: convert                                                 *)
(***************************************************************************)
\* get_file_type_by_extension: the processing map on the lower-cased suffix
get_file_type_by_extension(file) ==
  LET suffix == StrLower(Suffix(file.name))
  IN  IF suffix \in DOMAIN ALLOWED_EXT_MAP THEN ALLOWED_EXT_MAP[suffix] ELSE None

\* the children of the input directory that are files, as paths, in order
RECURSIVE files_in(_, _)
files_in(directory, listing) ==
  IF listing = <<>> THEN <<>>
  ELSE IF Head(listing).is_file
       THEN <<[dir |-> directory, name |-> Head(listing).name]>>
              \o files_in(directory, Tail(listing))
       ELSE files_in(directory, Tail(listing))

\* pm.get_conversion_params(): <<files_to_process, output_dest>>
get_conversion_params(manager, input_path, listing) ==
  IF manager.cls = "FilePathManager"
  THEN <<(<<input_path>>), NoPath>>
  ELSE <<files_in(input_path, listing), manager.output_path>>

BatchChildren ==
  { [name |-> "a.csv", is_file |-> TRUE], [name |-> "a.json", is_file |-> TRUE],
    [name |-> "a.PQ", is_file |-> TRUE], [name |-> "a.xlsx", is_file |-> TRUE],
    [name |-> "a.md", is_file |-> TRUE] }

RECURSIVE BatchListings(_)
BatchListings(n) ==
  IF n = 0 THEN {<<>>}
  ELSE LET shorter == BatchListings(n - 1)
       IN  shorter \cup
           UNION { { Append(l, c) :
                       c \in { d \in BatchChildren : \A i \in 1..Len(l) : l[i] # d } } :
                   l \in shorter }

\* files with the stem a that are in the output location before the batch:
\* a<ext> for 0, a_n<ext> for n > 0
PreExisting(directory, ext, pre) ==
  { [dir |-> directory,
     name |-> IF n = 0 THEN "a" \o ext ELSE "a_" \o IntToStr(n) \o ext] : n \in pre }

ConvertInit ==
  /\ AliasIdle
  /\ pm = NoPM
  /\ pOut \in Tokens
  /\ \/ /\ pKind = "file"
        /\ input_type \in {None, "json"}
        /\ pInput \in { [dir |-> Root, name |-> n] : n \in {"a.csv", "a.txt", "a.xlsx"} }
        /\ pListing = <<>>
        /\ \E pre \in SUBSET (0..MaxPre) :
              fs = {pInput} \cup PreExisting(Root, EXTENSIONS[pOut], pre)
     \/ /\ pKind = "dir"
        /\ input_type = None
        /\ pInput = [dir |-> Root, name |-> "csv_data"]
        /\ pListing \in BatchListings(MaxFiles)
        /\ \E pre \in SUBSET (0..MaxPre) :
              fs = { [dir |-> pInput, name |-> pListing[i].name] : i \in 1..Len(pListing) }
                   \cup PreExisting(create_path_manager(pInput, pOut, pKind, pListing).output_path,
                                    EXTENSIONS[pOut], pre)
  /\ files_to_process = <<>>
  /\ output_dest = NoPath
  /\ pc = "start"
  /\ idx = 0
  /\ conn = "none"
  /\ acquired = 0
  /\ log = <<>>
  /\ calls = <<>>
  /\ batch = 1

\* lines 97-112: the path manager and the conversion parameters
Prepare ==
  /\ pc = "start"
  /\ pm' = create_path_manager(pInput, pOut, pKind, pListing)
  /\ files_to_process' = get_conversion_params(pm', pInput, pListing)[1]
  /\ output_dest' = get_conversion_params(pm', pInput, pListing)[2]
  /\ pc' = "connect"
  /\ UNCHANGED <<pInput, pKind, pListing, pOut, input_type, fs, idx, conn, acquired,
                 log, calls, batch>>
  /\ UNCHANGED aliasVars

\* lines 115-117: the connection is acquired; when the spreadsheet extension
\* does not load, convert returns and the with block releases it
OpenConnection ==
  /\ pc = "connect"
  /\ acquired' = acquired + 1
  /\ \E loaded \in BOOLEAN :
        IF loaded
        THEN conn' = "open" /\ pc' = "loop" /\ idx' = 1
        ELSE conn' = "closed" /\ pc' = "returned" /\ idx' = idx
  /\ UNCHANGED <<input_type, files_to_process, output_dest, fs, log, calls, batch>>
  /\ UNCHANGED <<aliasVars, pathVars>>

\* lines 119-122: a file whose extension is not recognised is skipped
SkipFile ==
  /\ pc = "loop" /\ idx <= Len(files_to_process)
  /\ get_file_type_by_extension(files_to_process[idx]) = None
  /\ log' = Append(log, [level |-> "info", event |-> "skipping",
                          file |-> files_to_process[idx].name, batch |-> batch])
  /\ idx' = idx + 1
  /\ UNCHANGED <<input_type, files_to_process, output_dest, fs, pc, conn, acquired,
                 calls, batch>>
  /\ UNCHANGED <<aliasVars, pathVars>>

\* process_file without its try block: a failed conversion leaves the loop
ProcessFile_NoTry ==
  /\ pc = "loop" /\ idx <= Len(files_to_process)
  /\ get_file_type_by_extension(files_to_process[idx]) # None
  /\ \E engine_ok \in BOOLEAN :
        LET f == files_to_process[idx]
            in_type == IF input_type # None THEN input_type
                       ELSE get_file_type_by_extension(f)
            call == process_file(f, in_type, pOut, output_dest, fs, engine_ok)
        IN  /\ calls' = Append(calls, call @@ [conn |-> conn, batch |-> batch, index |-> idx])
            /\ IF call.result = "converted"
               THEN /\ fs' = fs \cup {call.output_file}
                    /\ log' = Append(log, [level |-> "info", event |-> "converted",
                                            file |-> f.name, batch |-> batch])
                    /\ idx' = idx + 1
                    /\ UNCHANGED <<pc, conn>>
               ELSE /\ fs' = fs
                    /\ log' = Append(log, [level |-> "error", event |-> "Conversion failed",
                                            file |-> f.name, batch |-> batch])
                    /\ idx' = idx
                    /\ pc' = "raised"
                    /\ conn' = "closed"
  /\ UNCHANGED <<input_type, files_to_process, output_dest, acquired, batch>>
  /\ UNCHANGED <<aliasVars, pathVars>>

\* lines 123-142: process_file on the file at the loop index
ProcessFile ==
  /\ pc = "loop" /\ idx <= Len(files_to_process)
  /\ get_file_type_by_extension(files_to_process[idx]) # None
  /\ \E engine_ok \in BOOLEAN :
        LET f == files_to_process[idx]
            in_type == IF input_type # None THEN input_type
                       ELSE get_file_type_by_extension(f)
            call == process_file(f, in_type, pOut, output_dest, fs, engine_ok)
        IN  /\ calls' = Append(calls, call @@ [conn |-> conn, batch |-> batch, index |-> idx])
            /\ IF call.result = "converted"
               THEN /\ fs' = fs \cup {call.output_file}
                    /\ log' = Append(log, [level |-> "info", event |-> "converted",
                                            file |-> f.name, batch |-> batch])
               ELSE /\ fs' = fs
                    /\ log' = Append(log, [level |-> "error", event |-> call.result,
                                            file |-> f.name, batch |-> batch])
  /\ idx' = idx + 1
  /\ UNCHANGED <<input_type, files_to_process, output_dest, pc, conn, acquired, batch>>
  /\ UNCHANGED <<aliasVars, pathVars>>

\* the escaping exception with a connection that is not scoped by a with block
ExceptionEscapes_NoRelease ==
  /\ pc = "loop" /\ idx <= Len(files_to_process)
  /\ pc' = "raised"
  /\ log' = Append(log, [level |-> "error", event |-> "Conversion failed",
                          file |-> files_to_process[idx].name, batch |-> batch])
  /\ UNCHANGED <<input_type, files_to_process, output_dest, fs, idx, conn, acquired,
                 calls, batch>>
  /\ UNCHANGED <<aliasVars, pathVars>>

\* an exception raised in the loop outside process_file's try block leaves
\* the with block, which releases the connection; main logs it
ExceptionEscapes ==
  /\ pc = "loop" /\ idx <= Len(files_to_process)
  /\ conn' = "closed"
  /\ pc' = "raised"
  /\ log' = Append(log, [level |-> "error", event |-> "Conversion failed",
                          file |-> files_to_process[idx].name, batch |-> batch])
  /\ UNCHANGED <<input_type, files_to_process, output_dest, fs, idx, acquired, calls, batch>>
  /\ UNCHANGED <<aliasVars, pathVars>>

\* the loop is over: the with block releases the connection
LoopExit ==
  /\ pc = "loop" /\ idx > Len(files_to_process)
  /\ conn' = "closed"
  /\ pc' = "done"
  /\ UNCHANGED <<input_type, files_to_process, output_dest, fs, idx, acquired, log,
                 calls, batch>>
  /\ UNCHANGED <<aliasVars, pathVars>>

\* the tool is run again on the same single file
NewBatch ==
  /\ pc \in {"done", "returned", "raised"}
  /\ pKind = "file"
  /\ batch < MaxBatches
  /\ batch' = batch + 1
  /\ pc' = "start"
  /\ idx' = 0
  /\ conn' = "none"
  /\ acquired' = 0
  /\ pm' = NoPM
  /\ files_to_process' = <<>>
  /\ output_dest' = NoPath
  /\ UNCHANGED <<pInput, pKind, pListing, pOut, input_type, fs, log, calls>>
  /\ UNCHANGED aliasVars

Next ==
  \/ Prepare
  \/ OpenConnection
  \/ SkipFile
  \/ ProcessFile
  \/ ExceptionEscapes
  \/ LoopExit
  \/ NewBatch

Spec == ConvertInit /\ [][Next]_vars

(***************************************************************************)
(* Claims                                                                  *)
(***************************************************************************)
\* the alias occurs at position i of the text, letters compared without case
OccursAt(text, alias, i) ==
  /\ i + Len(alias) - 1 <= Len(text)
  /\ \A k \in 1..Len(alias) : LowerCh(Ch(text, i + k - 1)) = LowerCh(Ch(alias, k))

\* the matched occurrences: an occurrence is matched unless it starts inside
\* an earlier matched occurrence
MatchedStarts(text, alias) ==
  LET occ == { i \in 1..Len(text) : OccursAt(text, alias, i) }
  IN  CHOOSE S \in SUBSET occ :
        \A i \in occ : i \in S <=> ~ \E j \in S : j < i /\ i < j + Len(alias)

AllUpperLetters(s) == \A c \in CharsOf(s) : c \in UpperSet
AllLowerLetters(s) == \A c \in CharsOf(s) : c \in LowerSet

\* the destination alias written in the case pattern of a matched substring
InCasePattern(matched, alias) ==
  CASE AllUpperLetters(matched) -> StrUpper(alias)
    [] AllLowerLetters(matched) -> StrLower(alias)
    [] /\ ~AllUpperLetters(matched)
       /\ ~AllLowerLetters(matched)
       /\ AllUpperLetters(Ch(matched, 1))
       /\ AllLowerLetters(SubSeq(matched, 2, Len(matched))) ->
         UpperCh(Ch(alias, 1)) \o StrLower(SubSeq(alias, 2, Len(alias)))
    [] OTHER -> alias

\* where position k of the text lands in the result, given the matches before it
LandsAt(S, k, old_alias, new_alias) ==
  LET before == Cardinality({ j \in S : j < k })
  IN  (k + before * Len(new_alias)) - before * Len(old_alias)

\* the examples of the specification, as calls and their results
SubstitutionExamples ==
  { <<"SALES_CSV_2023", "SALES_JSON_2023">>, <<"Sales_Csv_Report", "Sales_Json_Report">>,
    <<"sales_csv_report", "sales_json_report">> }

\* C4: when the source alias occurs in the name, every matched occurrence is
\* replaced by the destination alias in the case pattern of the match (upper,
\* lower, capitalized, otherwise verbatim) and every character outside the
\* matches is unchanged; the three examples of the specification hold.
C4_CasePreservingSubstitution ==
  (aCalled /\ MatchedStarts(aText, aOld) # {}) =>
    LET S == MatchedStarts(aText, aOld)
    IN  /\ Len(aResult) = (Len(aText) + Cardinality(S) * Len(aNew)) - Cardinality(S) * Len(aOld)
        /\ \A j \in S :
              SubSeq(aResult, LandsAt(S, j, aOld, aNew), LandsAt(S, j, aOld, aNew) + Len(aNew) - 1)
                = InCasePattern(SubSeq(aText, j, j + Len(aOld) - 1), aNew)
        /\ \A k \in 1..Len(aText) :
              (~ \E j \in S : j <= k /\ k < j + Len(aOld)) =>
                Ch(aResult, LandsAt(S, k, aOld, aNew)) = Ch(aText, k)
        /\ \A ex \in SubstitutionExamples :
              (aText = ex[1] /\ aOld = "csv" /\ aNew = "json") => aResult = ex[2]

\* C4 witness: a name with two matches in different case patterns, one of them
\* mixed, has been rewritten
C4_Witness ==
  /\ aCalled
  /\ Cardinality(MatchedStarts(aText, aOld)) = 2
  /\ \E i, j \in MatchedStarts(aText, aOld) :
        /\ AllUpperLetters(SubSeq(aText, i, i + Len(aOld) - 1))
        /\ InCasePattern(SubSeq(aText, j, j + Len(aOld) - 1), aNew) = "pQ"
  /\ aResult # aText

\* the alias a file extension is tallied as, None outside the naming classes
ExtensionAlias(e) ==
  CASE e = ".csv" -> "csv"
    [] e = ".txt" -> "txt"
    [] e = ".json" -> "json"
    [] e \in {".parquet", ".parq", ".pq"} -> "parquet"
    [] e = ".xlsx" -> "excel"
    [] OTHER -> None

\* the alias a child is tallied as: by its lower-cased extension, files only
TalliedAs(child) ==
  IF child.is_file THEN ExtensionAlias(StrLower(Suffix(child.name))) ELSE None

Tally(listing, alias) ==
  Cardinality({ i \in 1..Len(listing) : TalliedAs(listing[i]) = alias })

FirstSeen(listing, alias) ==
  CHOOSE i \in 1..Len(listing) :
    /\ TalliedAs(listing[i]) = alias
    /\ \A j \in 1..(i - 1) : TalliedAs(listing[j]) # alias

TalliedAliases(listing) ==
  { TalliedAs(listing[i]) : i \in 1..Len(listing) } \ {None}

\* C5: directory-name resolution always yields a name; the name is the input
\* name, one space, the destination alias exactly when no child file is
\* tallied (no alias inferred) or the inferred alias occurs nowhere in the
\* input name, letters compared without case.
C5_AppendFallback ==
  /\ pm.cls = "DirectoryPathManager" =>
       /\ Len(pm.output_name) > 0
       /\ (TalliedAliases(pListing) = {}) <=> (pm.input_alias = None)
       /\ (pm.output_name = pInput.name \o " " \o pOut)
             <=> \/ TalliedAliases(pListing) = {}
                 \/ \A i \in 1..Len(pInput.name) : ~OccursAt(pInput.name, pm.input_alias, i)

\* C5 witness: MyData with one child outside the naming map, destination
\* parquet, resolved to "MyData parquet"
C5_Witness ==
  /\ pm.cls = "DirectoryPathManager"
  /\ pInput.name = "MyData"
  /\ pListing = <<[name |-> "g.tsv", is_file |-> TRUE]>>
  /\ pOut = "parquet"
  /\ pm.output_name = "MyData parquet"

\* C6: only files whose lower-cased extension is in the naming map are
\* tallied (.txt as txt, .parq and .pq as parquet); the inferred alias has the
\* maximum tally and, among the aliases with the maximum tally, the earliest
\* first file in listing order; it is None exactly when nothing is tallied.
C6_MajorityAlias ==
  (pm.cls = "DirectoryPathManager" /\ pKind = "dir") =>
    LET tallied == TalliedAliases(pListing)
        winner == pm.input_alias
    IN  /\ (winner = None) <=> (tallied = {})
        /\ tallied # {} =>
              /\ winner \in tallied
              /\ \A other \in tallied :
                    /\ Tally(pListing, other) <= Tally(pListing, winner)
                    /\ Tally(pListing, other) = Tally(pListing, winner) =>
                          FirstSeen(pListing, winner) <= FirstSeen(pListing, other)

\* C6 witness: two json files and two csv files, a json file listed first:
\* json is inferred
C6_Witness ==
  /\ pm.cls = "DirectoryPathManager"
  /\ Tally(pListing, "csv") = 2
  /\ Tally(pListing, "json") = 2
  /\ TalliedAs(pListing[1]) = "json"
  /\ TalliedAs(pListing[2]) = "csv"
  /\ pm.input_alias = "json"

\* C10: the output directory of a directory input has the parent of the
\* input directory and a name different from the input directory's name.
C10_SiblingWithNewName ==
  pm.cls = "DirectoryPathManager" =>
    /\ pm.output_path.dir = pInput.dir
    /\ pm.output_path.name # pInput.name

(***************************************************************************)
(* Claims about process_file and convert                                   *)
(***************************************************************************)
\* the canonical extension of a destination token
CanonicalExtension(token) ==
  CASE token = "csv" -> ".csv"
    [] token = "tsv" -> ".tsv"
    [] token = "txt" -> ".txt"
    [] token = "parquet" -> ".parquet"
    [] token = "json" -> ".json"
    [] token = "excel" -> ".xlsx"

\* the directory a call of process_file writes to
TargetDir(call) == IF call.output_dir = NoPath THEN call.file.dir ELSE call.output_dir

\* <stem><ext> for n = 0 and <stem>_n<ext> for n > 0, in the target directory
Named(call, n) ==
  [dir |-> TargetDir(call),
   name |-> IF n = 0
            THEN Stem(call.file.name) \o CanonicalExtension(call.out_type)
            ELSE Stem(call.file.name) \o "_" \o IntToStr(n)
                   \o CanonicalExtension(call.out_type)]

\* C1: the output path of every process_file call did not exist when it was
\* chosen: it is <stem><ext> when that is free, and otherwise <stem>_N<ext>
\* for the smallest N >= 1 that is free.
C1_NoOverwrite ==
  \A k \in 1..Len(calls) :
    LET call == calls[k]
    IN  /\ call.output_file \notin call.existing
        /\ Named(call, 0) \notin call.existing => call.output_file = Named(call, 0)
        /\ Named(call, 0) \in call.existing =>
              \E n \in 1..(Cardinality(call.existing) + 1) :
                /\ call.output_file = Named(call, n)
                /\ \A m \in 1..(n - 1) : Named(call, m) \in call.existing

\* C1 witness: a.parquet and a_1.parquet exist and a_2.parquet is chosen
C1_Witness ==
  \E k \in 1..Len(calls) :
    /\ Named(calls[k], 0) \in calls[k].existing
    /\ Named(calls[k], 1) \in calls[k].existing
    /\ calls[k].output_file.name = "a_2.parquet"

\* the number in the output name of a call: 0 for the unsuffixed candidate
SuffixNumber(call) ==
  IF call.output_file = call.first THEN 0
  ELSE CHOOSE n \in 1..(Cardinality(call.existing) + 1) : call.output_file = Named(call, n)

Rewritten(path, token) ==
  [dir |-> path.dir, name |-> Stem(path.name) \o CanonicalExtension(token)]

\* C3: for a single-file input the output path of FilePathManager and the
\* path process_file starts from are the input path with its extension
\* rewritten to the canonical extension of the destination token.
C3_CanonicalExtension ==
  /\ pm.cls = "FilePathManager" => pm.output_path = Rewritten(pInput, pOut)
  /\ pKind = "file" =>
       \A k \in 1..Len(calls) : calls[k].first = Rewritten(calls[k].file, calls[k].out_type)

Sources == {"csv", "json", "parquet", "excel"}
Destinations == {"csv", "json", "parquet", "excel", "tsv", "txt"}

OfThisBatch(entry) == entry.batch = batch /\ entry.event # "Conversion failed"

CallsAt(i) == { k \in 1..Len(calls) : calls[k].batch = batch /\ calls[k].index = i }

\* C8: once the loop runs, the files before the loop index have been visited
\* exactly once each and in order, whatever failed: a file whose type is not
\* detected was skipped, every other file had exactly one process_file call, logged as
\* converted or as an error; no failed call stops the loop, and a batch that
\* is done has visited every file and logged one error per failed file.
C8_BatchFaultIsolation ==
  pc \in {"loop", "done", "raised"} =>
    LET visited == SelectSeq(log, OfThisBatch)
    IN  /\ idx <= Len(files_to_process) + 1
        /\ Len(visited) = idx - 1
        /\ \A i \in 1..(idx - 1) :
              /\ visited[i].file = files_to_process[i].name
              /\ IF get_file_type_by_extension(files_to_process[i]) # None
                 THEN /\ Cardinality(CallsAt(i)) = 1
                      /\ \A k \in CallsAt(i) :
                            /\ calls[k].file = files_to_process[i]
                            /\ calls[k].result = "converted" =>
                                  /\ visited[i].level = "info"
                                  /\ calls[k].output_file \in fs
                            /\ calls[k].result # "converted" =>
                                  /\ visited[i].level = "error"
                                  /\ visited[i].event = calls[k].result
                 ELSE /\ CallsAt(i) = {}
                      /\ visited[i].event = "skipping"
        /\ \A k \in 1..Len(calls) : calls[k].batch = batch => calls[k].index < idx
        /\ pc = "done" => idx = Len(files_to_process) + 1

\* C8 witness: a batch of four recognised files is done; the second
\* conversion failed in the engine, the other three were converted and their
\* outputs exist, exactly one error is logged
C8_Witness ==
  /\ pc = "done"
  /\ Len(files_to_process) = 4
  /\ Len(calls) = 4
  /\ calls[2].result = "EngineError"
  /\ \A k \in {1, 3, 4} : calls[k].result = "converted" /\ calls[k].output_file \in fs
  /\ Cardinality({ calls[k].output_file : k \in {1, 3, 4} }) = 3
  /\ Cardinality({ e \in 1..Len(log) : log[e].level = "error" }) = 1

\* C9: a batch acquires the connection once; every process_file call runs
\* with the connection open; the connection is released when the batch is
\* done, when it returned because the spreadsheet extension did not load, and
\* when an exception left the loop; no call runs before the acquisition.
C9_ConnectionScoping ==
  /\ acquired <= 1
  /\ pc \in {"start", "connect"} =>
       /\ acquired = 0
       /\ conn = "none"
       /\ \A k \in 1..Len(calls) : calls[k].batch # batch
  /\ pc = "loop" => acquired = 1 /\ conn = "open"
  /\ pc \in {"done", "returned", "raised"} => acquired = 1 /\ conn = "closed"
  /\ pc = "returned" => \A k \in 1..Len(calls) : calls[k].batch # batch
  /\ \A k \in 1..Len(calls) : calls[k].conn = "open"

\* C9 witness: an exception left the loop after a conversion and the
\* connection is released
C9_Witness ==
  /\ pc = "raised"
  /\ conn = "closed"
  /\ \E k \in 1..Len(calls) : calls[k].batch = batch /\ calls[k].result = "converted"

====
